---- MODULE Spec2Model ----
(***************************************************************************)
(* A model of p-filer (src/p-filer/src/p_system_fs/mod.rs): an Apple       *)
(* Pascal disk image is read and de-interleaved (AppleDisk::read_buffer),  *)
(* its directory is decoded (Directory::new), and one command (list,       *)
(* transfer, dump, remove, change, krunch, zero) is run on it.             *)
(*                                                                         *)
(* Bytes are integers 0..255, byte sequences are TLA+ sequences (1-based:  *)
(* Rust's buffer[k] is buffer[k+1] here).  A panic ends the run; `status`  *)
(* then holds the kind of panic.  What the program prints is abstracted to *)
(* the events `listed` and `dumped`; the file it writes is `written`.      *)
(***************************************************************************)
EXTENDS Integers, Sequences, FiniteSets, TLC

VARIABLES
    pc,          \* "start" | "opened" | "done": main()'s position ("text" in SpecText)
    image,       \* the bytes of the image file (fs::read's result)
    blocks,      \* AppleDisk.blocks
    directory,   \* AppleDisk.directory
    dir_io,      \* what Directory::new was handed and what it read
    cmd,         \* the command main() dispatched
    status,      \* "running" | "ok" | the panic that ended the run
    matched,     \* transfer(): the index of the entry it found, or -1
    written,     \* the file fs::write produced in transfer()
    listed,      \* list(): the entries printed, in order
    dumped,      \* dump(): the block numbers given to read_blocks, in order
    txt_in,      \* text_from_blocks: its argument (SpecText)
    txt_out,     \* text_from_blocks: its outcome (SpecText)
    dec_in,      \* pdate_to_string, pstring_to_string: the argument (SpecDate, SpecString)
    dec_out      \* pdate_to_string, pstring_to_string: the outcome

vars == <<pc, image, blocks, directory, dir_io, cmd, status, matched, written,
          listed, dumped, txt_in, txt_out, dec_in, dec_out>>

----------------------------------------------------------------------------
(* Program constants *)

SectorSize == 256
SectorsPerTrack == 16
BlockSize == 512
DirCapacity == 77
VolumeInfoSize == 26
DirectoryEntrySize == 26
DirWindowStart == 1024
DirWindowEnd == 2560
TextStart == 1025
VolumeNameCap == 8
FileNameCap == 16
CR == 13
LF == 10
DLE == 16
IndentBias == 32
SPACE == 32
NUL == 0
CenturyPivot == 70

TrackSize == SectorsPerTrack * SectorSize

\* size_of::<Directory>(): repr(C), every field 2-aligned, no padding
DirectorySize == VolumeInfoSize + DirCapacity * DirectoryEntrySize

Byte == 0 .. 255

----------------------------------------------------------------------------
(* Bounds of the model *)

MaxTracks == 2

----------------------------------------------------------------------------
(* Helpers on byte sequences *)

\* the n bytes of s at 0-based offset off
Slice(s, off, n) == [k \in 1 .. n |-> s[off + k]]

\* a native (little-endian) u16 at 0-based offset off
U16(s, off) == s[off + 1] + 256 * s[off + 2]

Lo(v) == v % 256
Hi(v) == (v \div 256) % 256

\* the least element of a non-empty set of integers
Least(S) == CHOOSE x \in S : \A y \in S : x <= y

----------------------------------------------------------------------------
(* pstring_to_string: a Pascal string is a length byte and then the        *)
(* characters.  pstring[i] panics when i is not an index of the field.     *)
(* `read` is the number of bytes of the field the call has indexed; each   *)
(* byte b is pushed as the character of code b (`as char`).                *)

\* the loop as `for i in 0..len`
pstring_to_string_from_zero(pstring) ==
    LET len == pstring[1]
    IN  IF len > Len(pstring)
        THEN [panic |-> TRUE, value |-> <<>>, read |-> Len(pstring)]
        ELSE [panic |-> FALSE, value |-> [i \in 1 .. len |-> pstring[i]],
              read |-> IF len = 0 THEN 1 ELSE len]

pstring_to_string(pstring) ==
    LET len == pstring[1]
    IN  IF len > Len(pstring) - 1
        THEN [panic |-> TRUE, value |-> <<>>, read |-> Len(pstring)]
        ELSE [panic |-> FALSE, value |-> [i \in 1 .. len |-> pstring[i + 1]],
              read |-> len + 1]

\* format!("{:0w$}", n): the decimal digits of n, zero-padded to width w,
\* as character codes
RECURSIVE DecDigits(_)
DecDigits(n) ==
    IF n < 10 THEN <<48 + n>> ELSE Append(DecDigits(n \div 10), 48 + (n % 10))

RECURSIVE ZeroPad(_, _)
ZeroPad(ds, w) == IF Len(ds) >= w THEN ds ELSE ZeroPad(<<48>> \o ds, w)

FormatDec(n, w) == ZeroPad(DecDigits(n), w)

\* the century test as `year <= 70`
pdate_fields_pivot_inclusive(pdate) ==
    LET year  == (pdate \div 512) % 128
        day   == (pdate \div 16) % 32
        month == pdate % 16
    IN  [year  |-> IF year <= CenturyPivot THEN year + 2000 ELSE year + 1900,
         month |-> month,
         day   |-> day]

pdate_fields(pdate) ==
    LET year  == (pdate \div 512) % 128      \* (pdate & 0xfe00) >> 9
        day   == (pdate \div 16) % 32        \* (pdate & 0x01f0) >> 4
        month == pdate % 16                  \* pdate & 0x0F
    IN  [year  |-> IF year < CenturyPivot THEN year + 2000 ELSE year + 1900,
         month |-> month,
         day   |-> day]

\* "{:04}-{:02}-{:02}" of year, month, day (45 is '-')
pdate_to_string(pdate) ==
    LET f == pdate_fields(pdate)
    IN  FormatDec(f.year, 4) \o <<45>> \o FormatDec(f.month, 2) \o <<45>>
            \o FormatDec(f.day, 2)

----------------------------------------------------------------------------
(* text_from_blocks: the loop `for i in 1025..buffer.len()`.  text_step   *)
(* is one iteration on the loop's state (skip_next, result); a panic       *)
(* leaves the loop, so no later iteration acts.  `checks` is the build's   *)
(* overflow-checks setting: with it `buffer[i+1] as usize - 32` panics on  *)
(* a count byte below 32; without it the subtraction wraps to nearly 2^64  *)
(* and the push loop runs until the allocation fails.                      *)

Spaces(n) == [k \in 1 .. n |-> SPACE]

text_step(buffer, i, st, checks) ==
    IF st.status # "ok" THEN st
    ELSE LET byte == buffer[i + 1]
         IN  IF st.skip_next
             THEN [st EXCEPT !.skip_next = FALSE]
             ELSE IF byte = CR
             THEN [st EXCEPT !.result = Append(@, LF)]
             ELSE IF byte = DLE
             THEN IF i + 1 >= Len(buffer)
                  THEN [st EXCEPT !.status = "panic: index out of bounds"]
                  ELSE IF buffer[i + 2] < IndentBias
                  THEN [st EXCEPT !.status =
                            IF checks THEN "panic: attempt to subtract with overflow"
                            ELSE "abort: memory allocation failed"]
                  ELSE [st EXCEPT !.result = @ \o Spaces(buffer[i + 2] - IndentBias),
                                  !.skip_next = TRUE]
             ELSE IF byte = NUL
             THEN st
             ELSE [st EXCEPT !.result = Append(@, byte)]

\* the iterations lo .. hi-1, in order: the first half, then the second half
\* from the state the first half left (bound by CHOOSE, so it is computed
\* once)
RECURSIVE text_loop(_, _, _, _, _)
text_loop(buffer, lo, hi, st, checks) ==
    IF lo >= hi THEN st
    ELSE IF hi = lo + 1 THEN text_step(buffer, lo, st, checks)
    ELSE LET mid == (lo + hi) \div 2
         IN  CHOOSE r \in {text_loop(buffer, mid, hi, s, checks) :
                             s \in {text_loop(buffer, lo, mid, st, checks)}} : TRUE

\* an off-by-one start: the scan begins at offset 1024
text_from_blocks_from_1024(buffer, checks) ==
    LET end == text_loop(buffer, TextStart - 1, Len(buffer),
                         [status |-> "ok", skip_next |-> FALSE, result |-> <<>>],
                         checks)
    IN  [status |-> end.status,
         out |-> IF end.status = "ok" THEN end.result ELSE <<>>]

text_from_blocks(buffer, checks) ==
    LET end == text_loop(buffer, TextStart, Len(buffer),
                         [status |-> "ok", skip_next |-> FALSE, result |-> <<>>],
                         checks)
    IN  [status |-> end.status,
         out |-> IF end.status = "ok" THEN end.result ELSE <<>>]

----------------------------------------------------------------------------
(* AppleDisk::read_blocks and num_blocks                                   *)

num_blocks(blks) == Len(blks) \div BlockSize

\* count taken for the last block: one block too many is returned
read_blocks_inclusive(blks, index, count) ==
    LET start == index * BlockSize
        end   == (index + count + 1) * BlockSize
    IN  IF start > end \/ end > Len(blks)
        THEN [panic |-> TRUE, value |-> <<>>]
        ELSE [panic |-> FALSE, value |-> Slice(blks, start, end - start)]

\* &self.blocks[start..end]: panics unless start <= end <= len
read_blocks(blks, index, count) ==
    LET start == index * BlockSize
        end   == (index + count) * BlockSize
    IN  IF start > end \/ end > Len(blks)
        THEN [panic |-> TRUE, value |-> <<>>]
        ELSE [panic |-> FALSE, value |-> Slice(blks, start, end - start)]

----------------------------------------------------------------------------
(* AppleDisk::read_buffer: the three nested loops push, for each track and *)
(* each sector 0..15 in turn, the 256 bytes of sector sector_map[sector]   *)
(* of that track; the k-th push (0-based) is the one of track k / 4096,    *)
(* sector (k % 4096) / 256, byte k % 256.  The closing assert! panics when *)
(* the lengths differ.                                                     *)

\* the map left out: sectors copied in their physical order
sector_map_identity == <<0, 1, 2, 3, 4, 5, 6, 7, 8, 9, 10, 11, 12, 13, 14, 15>>

sector_map == <<0, 14, 13, 12, 11, 10, 9, 8, 7, 6, 5, 4, 3, 2, 1, 15>>

deinterleave(contents) ==
    LET total_sectors == Len(contents) \div SectorSize
        num_tracks    == total_sectors \div SectorsPerTrack
    IN  [k1 \in 1 .. num_tracks * SectorsPerTrack * SectorSize |->
            LET k            == k1 - 1
                track        == k \div (SectorsPerTrack * SectorSize)
                sector       == (k % (SectorsPerTrack * SectorSize)) \div SectorSize
                byte         == k % SectorSize
                track_offset == track * SectorsPerTrack * SectorSize
                sector2      == sector_map[sector + 1]
                source_sector_offset == sector2 * SectorSize + track_offset
            IN  contents[source_sector_offset + byte + 1]]

\* the assert! left out
assert_dropped(contents, buffer) == TRUE

assert_same_len(contents, buffer) == Len(contents) = Len(buffer)

read_buffer(contents) ==
    LET buffer == deinterleave(contents)
    IN  IF assert_same_len(contents, buffer)
        THEN [panic |-> FALSE, buffer |-> buffer]
        ELSE [panic |-> TRUE, buffer |-> buffer]

----------------------------------------------------------------------------
(* Directory::new: read_unaligned copies size_of::<Directory>() bytes from *)
(* the start of the slice, whatever the slice's length.  `raw` is the      *)
(* bytes the copy yields: the slice, followed by what lies after it.       *)

VolumeInfo(raw) ==
    [first_system_block          |-> U16(raw, 0),
     first_block_after_directory |-> U16(raw, 2),
     file_type                   |-> U16(raw, 4),
     volume_name                 |-> Slice(raw, 6, VolumeNameCap),
     num_blocks                  |-> U16(raw, 14),
     num_files                   |-> U16(raw, 16),
     last_access_time            |-> U16(raw, 18),
     date                        |-> U16(raw, 20),
     reserved                    |-> Slice(raw, 22, 4)]

DirectoryEntry(raw, off) ==
    [first_block         |-> U16(raw, off),
     first_after_block   |-> U16(raw, off + 2),
     file_type           |-> U16(raw, off + 4),
     name                |-> Slice(raw, off + 6, FileNameCap),
     bytes_in_last_block |-> U16(raw, off + 22),
     date                |-> U16(raw, off + 24)]

Directory_new(raw) ==
    [volume  |-> VolumeInfo(raw),
     entries |-> [i1 \in 1 .. DirCapacity |->
                    DirectoryEntry(raw, VolumeInfoSize + (i1 - 1) * DirectoryEntrySize)]]

----------------------------------------------------------------------------
(* The image files the model opens.  A file is laid out from its logical   *)
(* content (boot blocks 0-1, the directory from block 2, file data after   *)
(* it) by storing logical sector L of each track at the physical sector    *)
(* an Apple II .dsk file keeps it in; `extra` bytes follow the last whole  *)
(* track.                                                                  *)

NameHI == <<72, 73>>        \* "HI"
NameHi == <<72, 105>>       \* "Hi"
NameLO == <<76, 79>>        \* "LO"
NameX  == <<88>>            \* "X"
NameZZ == <<90, 90>>        \* "ZZ"
NameVOL == <<86, 79, 76>>   \* "VOL"

\* a well-formed Pascal string field of `cap` bytes
PField(name, cap) ==
    [k \in 1 .. cap |-> IF k = 1 THEN Len(name)
                        ELSE IF k - 1 <= Len(name) THEN name[k - 1] ELSE 0]

\* a 16-byte name field whose length byte exceeds the 15 characters it has
LongField == [k \in 1 .. FileNameCap |-> IF k = 1 THEN FileNameCap ELSE 88]

LE16(v) == <<Lo(v), Hi(v)>>

EntryImage(fb, fab, ftype, field, bil, date) ==
    LE16(fb) \o LE16(fab) \o LE16(ftype) \o field \o LE16(bil) \o LE16(date)

\* the slot of the table, beyond the 1536-byte window, that is given a name
FarSlot == 60

\* 17 March 1984 and 5 September 2003 as packed dates
DateA == 84 * 512 + 17 * 16 + 3
DateB == 3 * 512 + 5 * 16 + 9

SlotImage(p, i) ==
    IF i = 0 THEN EntryImage(6, 9, 3, PField(NameHI, FileNameCap), 512, DateA)
    ELSE IF i = 1 THEN EntryImage(p.r1[1], p.r1[2], 5, PField(p.n1, FileNameCap), 100, DateB)
    ELSE IF i = FarSlot THEN EntryImage(6, 7, 5, p.far, 7, DateB)
    ELSE [k \in 1 .. DirectoryEntrySize |-> 0]

VolumeImage(p) ==
    LE16(0) \o LE16(6) \o LE16(0) \o PField(NameVOL, VolumeNameCap)
        \o LE16(p.tracks * (TrackSize \div BlockSize)) \o LE16(p.nfiles)
        \o LE16(0) \o LE16(DateA) \o <<0, 0, 0, 0>>

\* the images of slots lo .. hi-1, one after the other
RECURSIVE SlotImages(_, _, _)
SlotImages(p, lo, hi) ==
    IF lo >= hi THEN <<>>
    ELSE IF hi = lo + 1 THEN SlotImage(p, lo)
    ELSE SlotImages(p, lo, (lo + hi) \div 2) \o SlotImages(p, (lo + hi) \div 2, hi)

DirImage(p) == VolumeImage(p) \o SlotImages(p, 0, DirCapacity)

\* data bytes: a text pattern of period 8 whose sixth byte names the sector
FillByte(p, pos) ==
    LET r == pos % 8
    IN  IF r = 0 THEN 65
        ELSE IF r = 1 THEN CR
        ELSE IF r = 2 THEN DLE
        ELSE IF r = 3 THEN 37
        ELSE IF r = 4 THEN NUL
        ELSE IF r = 5 THEN 48 + (pos \div SectorSize)
        ELSE IF r = 6 THEN 66
        ELSE IF p.dirty THEN DLE ELSE 67

LogicalImage(p) ==
    LET dir == DirImage(p) \o <<>>
    IN  [q1 \in 1 .. p.tracks * TrackSize |->
            IF q1 - 1 >= DirWindowStart /\ q1 - 1 < DirWindowStart + DirectorySize
            THEN dir[q1 - DirWindowStart]
            ELSE FillByte(p, q1 - 1)]

\* the logical sector stored at physical sector ph of a track
LogicalOf(ph) == IF ph = 0 \/ ph = 15 THEN ph ELSE 15 - ph

RawImage(p) ==
    LET logical == LogicalImage(p)
    IN  [q1 \in 1 .. p.tracks * TrackSize + p.extra |->
            IF q1 > p.tracks * TrackSize THEN 229
            ELSE LET q  == q1 - 1
                     t  == q \div TrackSize
                     ph == (q % TrackSize) \div SectorSize
                     b  == q % SectorSize
                 IN  logical[t * TrackSize + LogicalOf(ph) * SectorSize + b + 1]]

NumFilesChoices == {0, 1, 2, DirCapacity, DirCapacity + 1}

WholeImages ==
    {p \in [tracks : 1 .. MaxTracks, extra : {0}, nfiles : NumFilesChoices,
            n1 : {NameHI, NameHi, NameLO}, r1 : {<<7, 8>>, <<10, 9>>},
            far : {PField(NameX, FileNameCap), LongField}, dirty : BOOLEAN] :
        /\ p.r1 = <<10, 9>> => p.n1 = NameLO
        /\ p.dirty => p.nfiles = 2}

OddImages ==
    [tracks : 0 .. MaxTracks, extra : {0, 1, SectorSize}, nfiles : {1},
     n1 : {NameLO}, r1 : {<<7, 8>>}, far : {PField(NameX, FileNameCap)},
     dirty : {FALSE}]

ImageParams == WholeImages \cup OddImages

----------------------------------------------------------------------------
(* main(): AppleDisk::new, then the command                                *)

NoDirectory == [volume |-> <<>>, entries |-> <<>>]
NoCmd == [op |-> "none"]
NoFile == [exists |-> FALSE, name |-> <<>>, data |-> <<>>]
NoDecode == [kind |-> "none"]

NoDirIO == [called |-> FALSE, window |-> 0, read |-> 0]

\* fs::read succeeds: the image file exists and is readable
Init ==
    /\ pc = "start"
    /\ image \in {RawImage(p) : p \in ImageParams}
    /\ blocks = <<>>
    /\ directory = NoDirectory
    /\ dir_io = NoDirIO
    /\ cmd = NoCmd
    /\ status = "running"
    /\ matched = -1
    /\ written = NoFile
    /\ listed = <<>>
    /\ dumped = <<>>
    /\ txt_in = <<>>
    /\ txt_out = [status |-> "none", out |-> <<>>]
    /\ dec_in = NoDecode
    /\ dec_out = NoDecode

\* What a read past the end of the slice yields.  The slice is
\* buffer[1024..2560] of a Vec of at least 4096 bytes, so a compiled build
\* copies the bytes of the Vec that follow the slice; an execution that
\* checks pointer bounds (Miri) stops at the read.
PastSliceOutcomes == {"adjacent", "trap"}

Halt(st) ==
    /\ pc' = "done"
    /\ status' = st

\* AppleDisk::new
Open ==
    /\ pc = "start"
    /\ \E rb \in {read_buffer(image)} :
           IF rb.panic
           THEN /\ Halt("panic: assertion failed")
                /\ UNCHANGED <<blocks, directory, dir_io>>
           ELSE IF DirWindowEnd > Len(rb.buffer)
           THEN /\ Halt("panic: slice index out of range")
                /\ UNCHANGED <<blocks, directory, dir_io>>
           ELSE /\ dir_io' = [called |-> TRUE,
                              window |-> DirWindowEnd - DirWindowStart,
                              read |-> DirectorySize]
                /\ \E past \in PastSliceOutcomes :
                     IF past = "trap"
                     THEN /\ Halt("stopped: read outside the slice")
                          /\ UNCHANGED <<blocks, directory>>
                     ELSE /\ pc' = "opened"
                          /\ blocks' = rb.buffer
                          /\ directory' =
                               Directory_new(Slice(rb.buffer, DirWindowStart, DirectorySize))
                          /\ UNCHANGED status
    /\ UNCHANGED <<image, cmd, matched, written, listed, dumped, txt_in, txt_out,
                   dec_in, dec_out>>

----------------------------------------------------------------------------
(* The commands.  Each runs once, on an opened disk, and ends the run.     *)

Names == {NameHI, NameHi, NameLO, NameX, NameZZ}

Cmd(op, name, to_image, is_text, from, to) ==
    [op |-> op, name |-> name, to_image |-> to_image, is_text |-> is_text,
     from |-> from, to |-> to]

\* list(): the header lines (the volume name may panic), then entries
\* 0 .. num_files-1; entries[index] panics at index 77, and an entry's name
\* may panic.  An entry counts as printed when all its lines are.
EntryLines(index, entry) ==
    [index               |-> index,
     first_block         |-> entry.first_block,
     first_after_block   |-> entry.first_after_block,
     file_type           |-> entry.file_type,
     name                |-> pstring_to_string(entry.name).value,
     bytes_in_last_block |-> entry.bytes_in_last_block,
     date                |-> pdate_to_string(entry.date)]

\* the loop `for index in 0..num_files`: it is left at the first index
\* that is not one of the table (77) or whose name panics; the entries
\* before that index have been printed
list_loop(dir) ==
    LET stops == {index \in 0 .. dir.volume.num_files - 1 :
                    \/ index >= DirCapacity
                    \/ pstring_to_string(dir.entries[index + 1].name).panic}
        last  == IF stops = {} THEN dir.volume.num_files ELSE Least(stops)
    IN  [status  |-> IF stops = {} THEN "ok" ELSE "panic: index out of bounds",
         entries |-> [k \in 1 .. last |-> EntryLines(k - 1, dir.entries[k])]]

\* the loop run over the whole table, as transfer's is
list_whole_table(dir) ==
    IF pstring_to_string(dir.volume.volume_name).panic
    THEN [status |-> "panic: index out of bounds", entries |-> <<>>]
    ELSE list_loop([dir EXCEPT !.volume.num_files = DirCapacity])

list(dir) ==
    IF pstring_to_string(dir.volume.volume_name).panic
    THEN [status |-> "panic: index out of bounds", entries |-> <<>>]
    ELSE list_loop(dir)

List ==
    /\ pc = "opened"
    /\ cmd' = Cmd("list", <<>>, FALSE, FALSE, 0, 0)
    /\ \E r \in {list(directory)} :
         /\ listed' = r.entries
         /\ Halt(r.status)
    /\ UNCHANGED <<image, blocks, directory, dir_io, matched, written, dumped,
                   txt_in, txt_out,
                   dec_in, dec_out>>

\* transfer(), the loop `for entry in &self.directory.entries`: it is left
\* at the first entry whose name panics or equals `name`, and runs to the
\* end of the table when there is none
find_entry(dir, name) ==
    LET entry_name(i) == pstring_to_string(dir.entries[i + 1].name)
        stops == {i \in 0 .. Len(dir.entries) - 1 :
                    entry_name(i).panic \/ entry_name(i).value = name}
    IN  IF stops = {} THEN [kind |-> "none", index |-> Len(dir.entries)]
        ELSE IF entry_name(Least(stops)).panic
        THEN [kind |-> "panic", index |-> Least(stops)]
        ELSE [kind |-> "found", index |-> Least(stops)]

\* the body of `if entry_name == name`: the block range, the optional
\* detokenizing, the write.  first_after_block - first_block is a usize
\* subtraction: with overflow checks it panics when negative, without them
\* it wraps and index + count wraps back to first_after_block, which
\* read_blocks finds below its start.
extract(blks, entry, name, is_text, checks) ==
    IF checks /\ entry.first_after_block < entry.first_block
    THEN [status |-> "panic: attempt to subtract with overflow", file |-> NoFile]
    ELSE LET file_buffer == read_blocks(blks, entry.first_block,
                                        entry.first_after_block - entry.first_block)
         IN  IF file_buffer.panic
             THEN [status |-> "panic: slice index out of range", file |-> NoFile]
             ELSE IF is_text
             THEN LET text_buffer == text_from_blocks(file_buffer.value, checks)
                  IN  IF text_buffer.status # "ok"
                      THEN [status |-> text_buffer.status, file |-> NoFile]
                      ELSE [status |-> "ok",
                            file |-> [exists |-> TRUE, name |-> name,
                                      data |-> text_buffer.out]]
             ELSE [status |-> "ok",
                   file |-> [exists |-> TRUE, name |-> name,
                             data |-> file_buffer.value]]

transfer(blks, dir, name, to_image, is_text, checks) ==
    IF to_image
    THEN [status |-> "panic: not yet implemented", found |-> -1, file |-> NoFile]
    ELSE LET hit == find_entry(dir, name)
         IN  IF hit.kind = "panic"
             THEN [status |-> "panic: index out of bounds", found |-> -1,
                   file |-> NoFile]
             ELSE IF hit.kind = "found"
             THEN LET done == extract(blks, dir.entries[hit.index + 1], name,
                                      is_text, checks)
                  IN  [status |-> done.status, found |-> hit.index,
                       file |-> done.file]
             ELSE [status |-> "ok", found |-> -1, file |-> NoFile]

Transfer ==
    /\ pc = "opened"
    /\ \E name \in Names, to_image \in BOOLEAN, is_text \in BOOLEAN, checks \in BOOLEAN :
         /\ cmd' = Cmd("transfer", name, to_image, is_text, 0, 0)
         /\ \E r \in {transfer(blocks, directory, name, to_image, is_text, checks)} :
              /\ matched' = r.found
              /\ written' = r.file
              /\ Halt(r.status)
    /\ UNCHANGED <<image, blocks, directory, dir_io, listed, dumped, txt_in, txt_out,
                   dec_in, dec_out>>

\* dump(): the three checks, then read_blocks(block_no, 1) for each block
\* of from..=to, each rendered once read_blocks has returned it.  The loop
\* is left at the first block for which read_blocks panics.
dump_loop(blks, from, to) ==
    LET stops == {block_no \in from .. to : read_blocks(blks, block_no, 1).panic}
    IN  IF stops = {}
        THEN [status |-> "ok", touched |-> [k \in 1 .. to - from + 1 |-> from + k - 1]]
        ELSE [status |-> "panic: slice index out of range",
              touched |-> [k \in 1 .. Least(stops) - from + 1 |-> from + k - 1]]

dump(blks, from, to) ==
    IF from > to
    THEN [status |-> "panic: from must be less than to", touched |-> <<>>]
    ELSE IF to > num_blocks(blks)
    THEN [status |-> "panic: to must be less than num_blocks", touched |-> <<>>]
    ELSE IF from > num_blocks(blks)
    THEN [status |-> "panic: from must be less than num_blocks", touched |-> <<>>]
    ELSE dump_loop(blks, from, to)

DumpArgs == {0, num_blocks(blocks) - 1, num_blocks(blocks), num_blocks(blocks) + 1}

Dump ==
    /\ pc = "opened"
    /\ \E from \in DumpArgs, to \in DumpArgs :
         /\ cmd' = Cmd("dump", <<>>, FALSE, FALSE, from, to)
         /\ \E r \in {dump(blocks, from, to)} :
              /\ dumped' = r.touched
              /\ Halt(r.status)
    /\ UNCHANGED <<image, blocks, directory, dir_io, matched, written, listed,
                   txt_in, txt_out,
                   dec_in, dec_out>>

\* remove, change, krunch, zero: a line is printed and the call returns
Stub(c) ==
    /\ pc = "opened"
    /\ cmd' = c
    /\ Halt("ok")
    /\ UNCHANGED <<image, blocks, directory, dir_io, matched, written, listed,
                   dumped, txt_in, txt_out,
                   dec_in, dec_out>>

Remove == \E name \in Names : Stub(Cmd("remove", name, FALSE, FALSE, 0, 0))

Change == \E from \in {NameHI, NameZZ}, to \in {NameHI, NameZZ} : Stub(Cmd("change", from, FALSE, FALSE, 0, to))

Krunch == Stub(Cmd("krunch", <<>>, FALSE, FALSE, 0, 0))

Zero == Stub(Cmd("zero", <<>>, FALSE, FALSE, 0, 0))

Next ==
    \/ Open
    \/ List
    \/ Transfer
    \/ Dump
    \/ Remove
    \/ Change
    \/ Krunch
    \/ Zero

Spec == Init /\ [][Next]_vars

----------------------------------------------------------------------------
(* text_from_blocks on its own: a buffer is drawn, the function is applied *)

\* the longest run of bytes after the 1025 skipped ones
MaxTail == 4

TextAlphabet == {CR, DLE, NUL, 31, 37, 65}

RECURSIVE SeqsUpTo(_, _)
SeqsUpTo(S, n) ==
    IF n = 0 THEN {<<>>}
    ELSE LET shorter == SeqsUpTo(S, n - 1)
         IN  shorter \cup {Append(t, x) : t \in {u \in shorter : Len(u) = n - 1}, x \in S}

\* the 1025 bytes the scan skips: all zero, or a pattern that ends in an
\* indent marker at offset 1024
SkippedBytes(kind) ==
    [k \in 1 .. TextStart |->
        IF kind = 0 THEN 0 ELSE IF k = TextStart THEN DLE ELSE 33 + (k % 64)]

TextInputs ==
    {SkippedBytes(kind) \o t : kind \in {0, 1}, t \in SeqsUpTo(TextAlphabet, MaxTail)}
        \cup {<<>>, [k \in 1 .. BlockSize |-> DLE]}

InitText ==
    /\ pc = "text"
    /\ txt_in \in TextInputs
    /\ txt_out = [status |-> "none", out |-> <<>>]
    /\ dec_in = NoDecode
    /\ dec_out = NoDecode
    /\ image = <<>>
    /\ blocks = <<>>
    /\ directory = NoDirectory
    /\ dir_io = NoDirIO
    /\ cmd = NoCmd
    /\ status = "running"
    /\ matched = -1
    /\ written = NoFile
    /\ listed = <<>>
    /\ dumped = <<>>

Detokenize ==
    /\ pc = "text"
    /\ \E checks \in BOOLEAN : txt_out' = text_from_blocks(txt_in, checks)
    /\ pc' = "done"
    /\ UNCHANGED <<image, blocks, directory, dir_io, cmd, status, matched, written,
                   listed, dumped, txt_in, dec_in, dec_out>>

NextText == Detokenize

SpecText == InitText /\ [][NextText]_vars

----------------------------------------------------------------------------
(* pdate_to_string on its own: a u16 is drawn, the function is applied     *)

U16Values == 0 .. 65535

InitDate ==
    /\ pc = "date"
    /\ dec_in \in {[kind |-> "pdate", pdate |-> v] : v \in U16Values}
    /\ dec_out = NoDecode
    /\ txt_in = <<>>
    /\ txt_out = [status |-> "none", out |-> <<>>]
    /\ image = <<>>
    /\ blocks = <<>>
    /\ directory = NoDirectory
    /\ dir_io = NoDirIO
    /\ cmd = NoCmd
    /\ status = "running"
    /\ matched = -1
    /\ written = NoFile
    /\ listed = <<>>
    /\ dumped = <<>>

DecodeDate ==
    /\ pc = "date"
    /\ dec_out' = [kind |-> "pdate", value |-> pdate_to_string(dec_in.pdate)]
    /\ pc' = "done"
    /\ UNCHANGED <<image, blocks, directory, dir_io, cmd, status, matched, written,
                   listed, dumped, txt_in, txt_out, dec_in>>

NextDate == DecodeDate

SpecDate == InitDate /\ [][NextDate]_vars

----------------------------------------------------------------------------
(* pstring_to_string on its own: a field of one of the two capacities is   *)
(* drawn (volume_name: [u8; 8], name: [u8; 16]), the function is applied   *)

\* the bytes after the length byte: letters, "HELLO" and zeros, or bytes
\* above 127
FieldChars(kind, c) ==
    [k \in 1 .. c - 1 |->
        IF kind = 0 THEN 64 + k
        ELSE IF kind = 1 THEN (IF k <= 5 THEN <<72, 69, 76, 76, 79>>[k] ELSE 0)
        ELSE 200 + k]

PStringFields ==
    {<<len>> \o FieldChars(kind, c) :
        len \in Byte, kind \in {0, 1, 2}, c \in {VolumeNameCap, FileNameCap}}

InitString ==
    /\ pc = "pstring"
    /\ dec_in \in {[kind |-> "pstring", field |-> f] : f \in PStringFields}
    /\ dec_out = NoDecode
    /\ txt_in = <<>>
    /\ txt_out = [status |-> "none", out |-> <<>>]
    /\ image = <<>>
    /\ blocks = <<>>
    /\ directory = NoDirectory
    /\ dir_io = NoDirIO
    /\ cmd = NoCmd
    /\ status = "running"
    /\ matched = -1
    /\ written = NoFile
    /\ listed = <<>>
    /\ dumped = <<>>

DecodeString ==
    /\ pc = "pstring"
    /\ \E r \in {pstring_to_string(dec_in.field)} :
         /\ dec_out' = [kind |-> "pstring", panic |-> r.panic, value |-> r.value,
                        read |-> r.read]
         /\ status' = IF r.panic THEN "panic: index out of bounds" ELSE "ok"
    /\ pc' = "done"
    /\ UNCHANGED <<image, blocks, directory, dir_io, cmd, matched, written,
                   listed, dumped, txt_in, txt_out, dec_in>>

NextString == DecodeString

SpecString == InitString /\ [][NextString]_vars

----------------------------------------------------------------------------
(* Properties of text_from_blocks (SpecText)                               *)

\* the statuses in which the process has been ended by a panic or an abort
Crashes ==
    {"panic: assertion failed", "panic: slice index out of range",
     "panic: index out of bounds", "panic: attempt to subtract with overflow",
     "panic: not yet implemented", "panic: from must be less than to",
     "panic: to must be less than num_blocks",
     "panic: from must be less than num_blocks",
     "abort: memory allocation failed", "stopped: read outside the slice"}

\* the bytes of a buffer from offset 1025 on
Scanned(buffer) ==
    IF Len(buffer) <= 1025 THEN <<>> ELSE SubSeq(buffer, 1026, Len(buffer))

\* the decoding the format defines, by position: 0x0D gives 0x0A, 0x10 and
\* its count byte n give n - 32 spaces, 0x00 gives nothing, any other byte
\* gives itself
RECURSIVE Decoded(_)
Decoded(t) ==
    IF t = <<>> THEN <<>>
    ELSE IF t[1] = 13 THEN <<10>> \o Decoded(Tail(t))
    ELSE IF t[1] = 16 THEN [k \in 1 .. t[2] - 32 |-> 32] \o Decoded(Tail(Tail(t)))
    ELSE IF t[1] = 0 THEN Decoded(Tail(t))
    ELSE <<t[1]>> \o Decoded(Tail(t))

\* every indent marker the scan meets has a count byte, of at least 32
RECURSIVE Encoded(_)
Encoded(t) ==
    IF t = <<>> THEN TRUE
    ELSE IF t[1] = 16 THEN Len(t) >= 2 /\ t[2] >= 32 /\ Encoded(Tail(Tail(t)))
    ELSE Encoded(Tail(t))

\* the scan meets an indent marker at the last byte of t
RECURSIVE EndsInMarker(_)
EndsInMarker(t) ==
    IF t = <<>> THEN FALSE
    ELSE IF t[1] = 16 THEN Len(t) = 1 \/ (t[2] >= 32 /\ EndsInMarker(Tail(Tail(t))))
    ELSE EndsInMarker(Tail(t))

C6_TruncatedIsError ==
    pc = "done" /\ txt_out.status # "none" /\ EndsInMarker(Scanned(txt_in)) =>
        txt_out.status \notin Crashes \cup {"ok"}

----------------------------------------------------------------------------
(* Properties of the program (Spec).  They are stated on the bytes of the  *)
(* image and of the block store, not on the decoded directory.             *)

\* the table slot i as the block store holds it: name field and numbers
SlotOffset(i) == 1024 + 26 + 26 * i
SlotU16(i, off) == blocks[SlotOffset(i) + off + 1] + 256 * blocks[SlotOffset(i) + off + 2]
SlotNameLen(i) == blocks[SlotOffset(i) + 6 + 1]
SlotName(i) == [k \in 1 .. SlotNameLen(i) |-> blocks[SlotOffset(i) + 6 + 1 + k]]
SlotNamed(i, name) == SlotNameLen(i) <= 15 /\ SlotName(i) = name
FileCount == blocks[1024 + 16 + 1] + 256 * blocks[1024 + 16 + 2]
BlockCount == Len(blocks) \div 512

\* the position of the image that position k of the block store is copied
\* from (both 0-based): same track, sector sectorMap[L], same byte
SourcePos(k) ==
    LET sectorMap == <<0, 14, 13, 12, 11, 10, 9, 8, 7, 6, 5, 4, 3, 2, 1, 15>>
    IN  (k \div 4096) * 4096 + sectorMap[((k % 4096) \div 256) + 1] * 256 + (k % 256)

\* C1: for an image whose length is a multiple of 4096 the block store has
\* the image's length, byte t*4096 + L*256 + b of it is byte
\* t*4096 + sectorMap[L]*256 + b of the image, and the positions copied from
\* are all the positions of the image, each once.
C1_Deinterleave ==
    pc = "opened" /\ Len(image) % 4096 = 0 =>
        /\ Len(blocks) = Len(image)
        /\ \A k \in 0 .. Len(blocks) - 1 : blocks[k + 1] = image[SourcePos(k) + 1]
        /\ {SourcePos(k) : k \in 0 .. Len(blocks) - 1} = 0 .. Len(image) - 1

\* a two-track image is open, and sector 1 of its second track holds what
\* the image has in sector 14 of that track, which differs from its sector 1
C1_Witness ==
    /\ pc = "opened"
    /\ Len(image) = 8192
    /\ blocks[4096 + 256 + 6] = image[4096 + 14 * 256 + 6]
    /\ blocks[4096 + 256 + 6] # image[4096 + 256 + 6]

\* C7: an image whose length is not a multiple of 4096 is rejected when it
\* is opened: the run ends in read_buffer's assertion, no block store is
\* kept and Directory::new is not called.
C7_OddLengthRejected ==
    pc # "start" /\ Len(image) % 4096 # 0 =>
        /\ pc = "done"
        /\ status = "panic: assertion failed"
        /\ blocks = <<>>
        /\ ~dir_io.called

\* an image of one track and one sector more has been refused
C7_Witness ==
    /\ pc = "done"
    /\ Len(image) = 4096 + 256
    /\ status = "panic: assertion failed"

\* C9: Directory::new reads no byte outside the window it is handed, or
\* fails with a truncated-directory error.
C9_ReadsWithinWindow ==
    dir_io.called =>
        \/ dir_io.read <= dir_io.window
        \/ status = "error: truncated directory"

\* C10: list() prints table slots 0, 1, ... in table order, never a slot at
\* or beyond file_count; and it prints all file_count of them, whatever the
\* trailing slots hold, when file_count is at most 77 and the names of
\* those slots are well-formed.
C10_ListInTableOrder ==
    pc = "done" /\ cmd.op = "list" =>
        /\ Len(listed) <= FileCount
        /\ \A k \in 1 .. Len(listed) :
              /\ listed[k].index = k - 1
              /\ listed[k].first_block = SlotU16(k - 1, 0)
              /\ listed[k].first_after_block = SlotU16(k - 1, 2)
              /\ listed[k].file_type = SlotU16(k - 1, 4)
              /\ listed[k].name = SlotName(k - 1)
              /\ listed[k].bytes_in_last_block = SlotU16(k - 1, 22)
        /\ (FileCount <= 77 /\ \A i \in 0 .. FileCount - 1 : SlotNameLen(i) <= 15)
              => status = "ok" /\ Len(listed) = FileCount

\* two entries listed from a table whose slots 60 holds a name of its own
C10_Witness ==
    /\ pc = "done"
    /\ cmd.op = "list"
    /\ status = "ok"
    /\ FileCount = 2
    /\ Len(listed) = 2
    /\ listed[2].name = <<76, 79>>
    /\ \E i \in 2 .. 76 : SlotNameLen(i) > 0

\* the bytes [512*fb, 512*fab) of the block store
BlockRange(fb, fab) == [k \in 1 .. 512 * (fab - fb) |-> blocks[512 * fb + k]]

\* C2: when transfer out of the image finds the name, the entry it found
\* is the first one of that name; if that entry's blocks lie in the block
\* store (first_block <= first_after_block <= block count), then without
\* is_text the file written is exactly the bytes
\* [512*first_block, 512*first_after_block), unchanged, and with is_text it
\* is exactly what text_from_blocks gives for that same slice (no file when
\* text_from_blocks panics).
C2_ExtractSlice ==
    pc = "done" /\ cmd.op = "transfer" /\ matched >= 0 =>
        LET fb  == SlotU16(matched, 0)
            fab == SlotU16(matched, 2)
        IN  /\ SlotNamed(matched, cmd.name)
            /\ \A i \in 0 .. matched - 1 : ~SlotNamed(i, cmd.name)
            /\ fb <= fab /\ fab <= BlockCount =>
                 IF cmd.is_text
                 THEN \E checks \in BOOLEAN :
                        \E t \in {text_from_blocks(BlockRange(fb, fab), checks)} :
                          /\ status = t.status
                          /\ written.exists <=> t.status = "ok"
                          /\ written.data = t.out
                 ELSE /\ status = "ok"
                      /\ written.exists
                      /\ Len(written.data) = 512 * (fab - fb)
                      /\ written.data = BlockRange(fb, fab)

\* "HI", blocks 6 to 8 of a sixteen-block store, written out unchanged
C2_Witness ==
    /\ pc = "done"
    /\ cmd.op = "transfer"
    /\ cmd.name = <<72, 73>>
    /\ ~cmd.is_text
    /\ matched = 0
    /\ written.exists
    /\ Len(written.data) = 1536
    /\ written.data[1] = blocks[6 * 512 + 1]
    /\ written.data[1536] = blocks[9 * 512]

\* C3: the lookup of transfer considers only the first file_count entries:
\* the entry it finds is the first of them with the requested name, and a
\* slot at or beyond file_count is never found.
C3_LookupWithinFileCount ==
    pc = "done" /\ cmd.op = "transfer" /\ matched >= 0 =>
        /\ matched < FileCount
        /\ SlotNamed(matched, cmd.name)
        /\ \A i \in 0 .. matched - 1 : ~SlotNamed(i, cmd.name)

\* C4: a transfer out of the image for a name that no table slot holds ends
\* in a reported not-found outcome: neither a success nor a panic.
C4_NotFoundReported ==
    pc = "done" /\ cmd.op = "transfer" /\ ~cmd.to_image
        /\ (\A i \in 0 .. 76 : SlotNameLen(i) <= 15 /\ SlotName(i) # cmd.name)
    => status \notin Crashes \cup {"ok"}

\* C8: dump(from, to) reports a validation error, before any block is
\* rendered, whenever from > to or an endpoint is not a block of the store,
\* and hands read_blocks only block numbers below num_blocks().
C8_DumpInRange ==
    pc = "done" /\ cmd.op = "dump" =>
        /\ (cmd.from > cmd.to \/ cmd.from >= BlockCount \/ cmd.to >= BlockCount)
              => /\ dumped = <<>>
                 /\ status \in {"panic: from must be less than to",
                                "panic: to must be less than num_blocks",
                                "panic: from must be less than num_blocks"}
        /\ \A k \in 1 .. Len(dumped) : dumped[k] < BlockCount

\* C11: each unsupported operation (remove, change, krunch, zero, and a
\* transfer into the image) ends in a reported "not supported" outcome:
\* it neither completes as a success that did nothing nor panics.
C11_UnsupportedReported ==
    pc = "done" /\ (cmd.op \in {"remove", "change", "krunch", "zero"}
                      \/ (cmd.op = "transfer" /\ cmd.to_image))
    => status \notin Crashes \cup {"ok"}

----------------------------------------------------------------------------
(* Properties of pdate_to_string (SpecDate)                                *)

\* bit k of v, and the number that the n bits of v from bit lo upwards spell
Bit(v, k) == (v \div (2 ^ k)) % 2

RECURSIVE BitsValue(_, _, _)
BitsValue(v, lo, n) ==
    IF n = 0 THEN 0 ELSE Bit(v, lo) + 2 * BitsValue(v, lo + 1, n - 1)

\* the number a string of decimal digits spells; -1 if a character is no digit
RECURSIVE Number(_)
Number(s) ==
    IF s = <<>> THEN 0
    ELSE LET d == s[Len(s)] - 48
             rest == Number(SubSeq(s, 1, Len(s) - 1))
         IN  IF d \notin 0 .. 9 \/ rest < 0 THEN -1 ELSE 10 * rest + d

\* C12: for every 16-bit value the decoded date is "YYYY-MM-DD" in which the
\* year is bits 15-9 plus 2000 when that field is below 70 and plus 1900
\* otherwise, the month is bits 3-0 and the day is bits 8-4, both as they
\* stand; the value 0 decodes to 2000-00-00.
C12_DateDecoding ==
    pc = "done" /\ dec_out.kind = "pdate" =>
        LET v == dec_in.pdate
            s == dec_out.value
            field == BitsValue(v, 9, 7)
        IN  /\ Len(s) = 10
            /\ s[5] = 45
            /\ s[8] = 45
            /\ Number(SubSeq(s, 1, 4)) = (IF field < 70 THEN field + 2000 ELSE field + 1900)
            /\ Number(SubSeq(s, 6, 7)) = BitsValue(v, 0, 4)
            /\ Number(SubSeq(s, 9, 10)) = BitsValue(v, 4, 5)
            /\ v = 0 => s = <<50, 48, 48, 48, 45, 48, 48, 45, 48, 48>>

\* year field 69, day 31, month 15 has been decoded to "2069-15-31"
C12_Witness ==
    /\ pc = "done"
    /\ dec_in = [kind |-> "pdate", pdate |-> 69 * 512 + 31 * 16 + 15]
    /\ dec_out = [kind |-> "pdate",
                  value |-> <<50, 48, 54, 57, 45, 49, 53, 45, 51, 49>>]

----------------------------------------------------------------------------
(* Properties of pstring_to_string (SpecString)                            *)

\* C13: for a field of capacity c (8 or 16) with length byte len,
\* pstring_to_string returns exactly the len bytes after the length byte
\* when len <= c - 1 (nothing when len = 0); when len > c - 1 the call is
\* refused and returns nothing; in both cases it reads no byte beyond the
\* c bytes of the field.
C13_ShortString ==
    pc = "done" /\ dec_out.kind = "pstring" =>
        LET field == dec_in.field
            c == Len(field)
            len == field[1]
        IN  /\ c \in {8, 16}
            /\ len <= c - 1 =>
                 /\ ~dec_out.panic
                 /\ status = "ok"
                 /\ Len(dec_out.value) = len
                 /\ \A k \in 1 .. len : dec_out.value[k] = field[1 + k]
            /\ len = 0 => dec_out.value = <<>>
            /\ len > c - 1 =>
                 /\ dec_out.panic
                 /\ status = "panic: index out of bounds"
                 /\ dec_out.value = <<>>
            /\ dec_out.read <= c

\* the field [5, 'H', 'E', 'L', 'L', 'O', 0, 0] has been decoded to "HELLO"
C13_Witness ==
    /\ pc = "done"
    /\ dec_in = [kind |-> "pstring", field |-> <<5, 72, 69, 76, 76, 79, 0, 0>>]
    /\ dec_out.kind = "pstring"
    /\ ~dec_out.panic
    /\ dec_out.value = <<72, 69, 76, 76, 79>>

====
